---- MODULE Spec2Model ----
(***************************************************************************)
(* Lobby / session coordinator of the TTT servers.                         *)
(*                                                                         *)
(* Two server variants are modelled:                                       *)
(*   - the playerMove / exitToLobby server (src/unnamed/part_003):         *)
(*     variables lobbyUsers, ongoingGames;                                 *)
(*   - the makeMove / quitGame server (src/server.js, lines 1-286):        *)
(*     variables activeUsers, activeGames, dbUsers, tasks.                 *)
(* Both share the socket bookkeeping (closed), the record of the handler   *)
(* that ran last (ev) and the messages that handler emitted (out).         *)
(***************************************************************************)
EXTENDS Integers, Sequences, FiniteSets, Bags, TLC

VARIABLES
    lobbyUsers,     \* part_003: Map socketId -> {username, inGame, score}
    ongoingGames,   \* part_003: Map gameId -> gameState, in insertion order
    crashed,        \* an exception escaped a handler: the process is gone
    closed,         \* sockets whose disconnect event has fired
    out,            \* messages emitted by the handler that ran last
    ev,             \* the handler that ran last: name, sender, arguments, exit
    activeUsers,    \* server.js: { socketId: username }
    activeGames,    \* server.js: { gameId: game }, in insertion order, by reference
    heap,           \* server.js: the game objects that are still referenced
    dbUsers,        \* server.js: db.data.users, username -> counters
    tasks,          \* server.js: async handlers suspended at an await (a bag)
    timers          \* server.js: pending setTimeout callbacks, in firing order

vars == <<lobbyUsers, ongoingGames, crashed, closed, out, ev,
          activeUsers, activeGames, heap, dbUsers, tasks, timers>>

p3vars == <<lobbyUsers, ongoingGames>>
srvvars == <<activeUsers, activeGames, heap, dbUsers, tasks, timers>>

----------------------------------------------------------------------------
(* Bounds *)

\* score counters are capped: a move that would push one past it is not taken
MaxScore == 1

\* ... and so is the number of rounds a user finishes
MaxRounds == 1

\* async handlers of server.js suspended at an await at the same time
MaxTasks == 1

\* socket ids of the lobby scenarios and of the game scenarios
LobbyConns == {"a", "b", "c"}
Challengers == {"a", "c"}
Responders == {"b"}
Leavers == {"a", "b"}
GameConns == {"a", "b"}

\* display names a client may claim
Names == {"A", "B"}
LobbyNames == {"A"}

\* values Math.random() can make generateGameId return
GameIds == {"game_1", "game_2"}

\* gameId arguments clients send: the ids above and one that names no game
NoSuchGame == "game_0"
GameArgs == GameIds \cup {NoSuchGame}

\* cellIndex arguments clients send; 9 is outside the board
AllCells == 0..8
LobbyCells == {0, 9}

\* the cells the clients of the game scenarios click: X (socket a) can complete
\* the top row, the bot can complete a line when X wanders to 6, O (socket b)
\* can complete the middle row, 9 is off the board
CellsOf(s) == IF s = "a" THEN {0, 1, 2, 6, 9} ELSE IF s = "b" THEN {0, 3, 4, 5} ELSE {0}

\* the makeMove server: sockets, values of Date.now(), cells, and the name
\* each client logs in with
SrvConns == {"a", "b", "c"}
Times == {"t1"}
SrvCells == {0, 1, 2, 9}
AccountOf(s) == IF s = "b" THEN "B" ELSE "A"

----------------------------------------------------------------------------
(* Values *)

Null == "null"
BOT == "BOT"
ALL == "*"          \* io.emit: every connected socket

Min(S) == CHOOSE x \in S : \A y \in S : x <= y

\* createEmptyBoard: Array(9).fill(null)
createEmptyBoard == [i \in AllCells |-> Null]

combos == << <<0,1,2>>, <<3,4,5>>, <<6,7,8>>,
             <<0,3,6>>, <<1,4,7>>, <<2,5,8>>,
             <<0,4,8>>, <<2,4,6>> >>

\* combos without the two diagonals
CompleteStraight(board) ==
    {k \in 1..6 :
        /\ board[combos[k][1]] # Null
        /\ board[combos[k][1]] = board[combos[k][2]]
        /\ board[combos[k][2]] = board[combos[k][3]]}

\* the combos whose three cells hold the same non-null mark
Complete(board) ==
    {k \in 1..Len(combos) :
        /\ board[combos[k][1]] # Null
        /\ board[combos[k][1]] = board[combos[k][2]]
        /\ board[combos[k][2]] = board[combos[k][3]]}

\* an evaluator that sees the lines of X only
checkWinnerForX(board) ==
    IF \E k \in Complete(board) : board[combos[k][1]] = "X"
    THEN "X"
    ELSE IF \A i \in AllCells : board[i] # Null THEN "draw" ELSE Null

\* checkWinner of part_003: the mark of the first complete combo, else
\* "draw" on a full board, else null
checkWinner(board) ==
    IF Complete(board) # {}
    THEN board[combos[Min(Complete(board))][1]]
    ELSE IF \A i \in AllCells : board[i] # Null THEN "draw" ELSE Null


----------------------------------------------------------------------------
(* part_003: helpers *)

User(username) ==
    [username |-> username, inGame |-> FALSE,
     score |-> [wins |-> 0, losses |-> 0, draws |-> 0]]

\* a directory that never finds an entry
HasNone(users, id) == FALSE

\* lobbyUsers.has(id)
Has(users, id) == id \in DOMAIN users

\* Map.set on lobbyUsers
SetUser(users, id, u) ==
    [k \in DOMAIN users \cup {id} |-> IF k = id THEN u ELSE users[k]]

\* lobbyUsers.delete(id)
DeleteUser(users, id) == [k \in DOMAIN users \ {id} |-> users[k]]

\* the user record with inGame set
WithInGame(users, id, b) ==
    IF Has(users, id) THEN [users EXCEPT ![id].inGame = b] ELSE users

\* index of the entry of a Map (kept as a sequence) with the given key, or 0
IndexOf(games, gameId) ==
    IF \E k \in 1..Len(games) : games[k].gameId = gameId
    THEN Min({k \in 1..Len(games) : games[k].gameId = gameId})
    ELSE 0

\* ongoingGames.set(gameId, game): an existing key keeps its place
SetGame(games, game) ==
    IF IndexOf(games, game.gameId) = 0
    THEN Append(games, game)
    ELSE [games EXCEPT ![IndexOf(games, game.gameId)] = game]

\* a delete that takes the oldest entry when the key is not in the Map
DeleteGameOrOldest(games, gameId) ==
    IF \E k \in 1..Len(games) : games[k].gameId = gameId
    THEN SelectSeq(games, LAMBDA g : g.gameId # gameId)
    ELSE IF games = << >> THEN games ELSE Tail(games)

\* ongoingGames.delete(gameId)
DeleteGame(games, gameId) ==
    SelectSeq(games, LAMBDA g : g.gameId # gameId)

\* game.players.find(pred): index of the first player satisfying it, or 0
FindPlayer(game, Pred(_)) ==
    IF \E k \in 1..2 : Pred(game.players[k])
    THEN Min({k \in 1..2 : Pred(game.players[k])})
    ELSE 0

\* the socket ids bound to a game
Bound(game) == {game.players[k].socketId : k \in 1..2}

\* a game that starts with O to move
NewGameOFirst(gameId, xId, xName, oId, oName, bot) ==
    [gameId |-> gameId,
     board |-> createEmptyBoard,
     currentPlayer |-> "O",
     players |-> << [socketId |-> xId, symbol |-> "X", username |-> xName],
                    [socketId |-> oId, symbol |-> "O", username |-> oName] >>,
     winner |-> Null,
     replayRequests |-> << >>,
     isBotGame |-> bot]

\* gameState of challengeResponse and playWithBot
NewGame(gameId, xId, xName, oId, oName, bot) ==
    [gameId |-> gameId,
     board |-> createEmptyBoard,
     currentPlayer |-> "X",
     players |-> << [socketId |-> xId, symbol |-> "X", username |-> xName],
                    [socketId |-> oId, symbol |-> "O", username |-> oName] >>,
     winner |-> Null,
     replayRequests |-> << >>,
     isBotGame |-> bot]

\* updateLobby: the snapshot sent to every socket
Snapshot(users) ==
    {[socketId |-> id, username |-> users[id].username,
      inGame |-> users[id].inGame, score |-> users[id].score] : id \in DOMAIN users}

Msg(to, event, data) == [to |-> to, event |-> event, data |-> data]
LobbyData(users) == Msg(ALL, "lobbyData", Snapshot(users))

\* the handler that ran and the place it returned at
Event(name, exit) == [name |-> name, exit |-> exit]

Open(s) == s \notin closed

\* a handler that returns early: nothing changes, nothing is emitted
Return(name, exit) ==
    /\ ev' = Event(name, exit)
    /\ out' = << >>
    /\ UNCHANGED <<lobbyUsers, ongoingGames, crashed, closed>>

\* counters stay within the bound of the model
Capped(users) ==
    \A id \in DOMAIN users :
        /\ users[id].score.wins <= MaxScore
        /\ users[id].score.losses <= MaxScore
        /\ users[id].score.draws <= MaxScore
        /\ users[id].score.wins + users[id].score.losses
                + users[id].score.draws <= MaxRounds

\* lobbyUsers.get(id).score[field]++ for each <<id, field>> of incs, in order;
\* the first id that is not in the map throws (ok = FALSE) and the rest is skipped
RECURSIVE ApplyIncs(_, _)
ApplyIncs(users, incs) ==
    IF incs = << >> THEN [users |-> users, ok |-> TRUE]
    ELSE LET id == Head(incs)[1]
             field == Head(incs)[2]
         IN  IF ~Has(users, id) THEN [users |-> users, ok |-> FALSE]
             ELSE ApplyIncs(
                    [users EXCEPT ![id].score[field] = @ + 1], Tail(incs))

IsBot(p) == p.socketId = BOT
NotBot(p) == p.socketId # BOT
IsX(p) == p.symbol = "X"

\* part_003 lines 155-171: the increments after the human's terminal move
HumanIncs(game, result) ==
    IF result = "draw"
    THEN SelectSeq(<< <<game.players[1].socketId, "draws">>,
                      <<game.players[2].socketId, "draws">> >>,
                   LAMBDA i : i[1] # BOT)
    ELSE LET w == FindPlayer(game, LAMBDA p : p.symbol = result)
             l == FindPlayer(game, LAMBDA p : p.symbol # result)
         IN  SelectSeq(<< <<game.players[w].socketId, "wins">>,
                          <<game.players[l].socketId, "losses">> >>,
                       LAMBDA i : i[1] # BOT)

\* part_003 lines 184-199: the increments after the bot's terminal move
BotIncs(game, botResult) ==
    IF botResult = "draw"
    THEN LET u == FindPlayer(game, NotBot)
         IN  IF u = 0 THEN << >> ELSE << <<game.players[u].socketId, "draws">> >>
    ELSE LET u == FindPlayer(game, IsX)
         IN  IF u = 0 THEN << >>
             ELSE IF botResult = "O"
                  THEN << <<game.players[u].socketId, "losses">> >>
                  ELSE << <<game.players[u].socketId, "wins">> >>

\* a turn that never passes to the other side
Stay(symbol) == symbol

\* (game.currentPlayer === "X") ? "O" : "X"
Flip(symbol) == IF symbol = "X" THEN "O" ELSE "X"

\* a bot that picks among all the cells
AnyIndices(board) == AllCells

\* emptyIndices: the indices of the null cells
EmptyIndices(board) == {i \in AllCells : board[i] = Null}

----------------------------------------------------------------------------
(* part_003: the socket handlers *)

\* a busy check that looks at the challenger only
BusyOne(users, x, y) == users[x].inGame

\* challenger.inGame || opponent.inGame
Busy(users, x, y) == users[x].inGame \/ users[y].inGame

\* a turn check that lets either participant move
MayMoveAnySide(game, s) == FindPlayer(game, LAMBDA p : p.socketId = s) # 0

\* the sender is bound to the game and its symbol is the side to move
MayMove(game, s) ==
    /\ FindPlayer(game, LAMBDA p : p.socketId = s) # 0
    /\ game.players[FindPlayer(game, LAMBDA p : p.socketId = s)].symbol
            = game.currentPlayer

\* socket.on("joinLobby")
JoinLobby(s, username) ==
    /\ ~crashed /\ Open(s)
    /\ UNCHANGED srvvars
    /\ IF Has(lobbyUsers, s) THEN Return("joinLobby", "registered")
       ELSE /\ lobbyUsers' = SetUser(lobbyUsers, s, User(username))
            /\ out' = << LobbyData(lobbyUsers') >>
            /\ ev' = Event("joinLobby", "joined")
            /\ UNCHANGED <<ongoingGames, crashed, closed>>

\* socket.on("challengeUser")
ChallengeUser(s, opponentId) ==
    /\ ~crashed /\ Open(s)
    /\ UNCHANGED srvvars
    /\ IF ~Has(lobbyUsers, s) \/ ~Has(lobbyUsers, opponentId)
       THEN Return("challengeUser", "absent")
       ELSE IF Busy(lobbyUsers, s, opponentId)
       THEN Return("challengeUser", "busy")
       ELSE /\ out' = << Msg(opponentId, "challengeRequest",
                             [from |-> s, fromUsername |-> lobbyUsers[s].username]) >>
            /\ ev' = Event("challengeUser", "sent")
            /\ UNCHANGED <<lobbyUsers, ongoingGames, crashed, closed>>

\* socket.on("challengeResponse"); gameId is what generateGameId returns
ChallengeResponse(s, from, accepted, gameId) ==
    /\ ~crashed /\ Open(s)
    /\ UNCHANGED srvvars
    /\ IF ~Has(lobbyUsers, from) \/ ~Has(lobbyUsers, s)
       THEN Return("challengeResponse", "absent")
       ELSE IF Busy(lobbyUsers, from, s)
       THEN Return("challengeResponse", "busy")
       ELSE IF accepted
       THEN LET gameState == NewGame(gameId, from, lobbyUsers[from].username,
                                     s, lobbyUsers[s].username, FALSE)
            IN  /\ ongoingGames' = SetGame(ongoingGames, gameState)
                /\ lobbyUsers' = WithInGame(WithInGame(lobbyUsers, from, TRUE), s, TRUE)
                /\ out' = << Msg(from, "startGame", gameState),
                             Msg(s, "startGame", gameState),
                             LobbyData(lobbyUsers') >>
                /\ ev' = Event("challengeResponse", "started")
                /\ UNCHANGED <<crashed, closed>>
       ELSE /\ out' = << Msg(from, "challengeDeclined",
                             [reason |-> lobbyUsers[s].username]) >>
            /\ ev' = Event("challengeResponse", "declined")
            /\ UNCHANGED <<lobbyUsers, ongoingGames, crashed, closed>>

\* socket.on("playWithBot"); gameId is what generateGameId returns
PlayWithBot(s, gameId) ==
    /\ ~crashed /\ Open(s)
    /\ UNCHANGED srvvars
    /\ IF ~Has(lobbyUsers, s) THEN Return("playWithBot", "absent")
       ELSE IF lobbyUsers[s].inGame THEN Return("playWithBot", "busy")
       ELSE LET gameState == NewGame(gameId, s, lobbyUsers[s].username,
                                     BOT, "Bot", TRUE)
            IN  /\ ongoingGames' = SetGame(ongoingGames, gameState)
                /\ lobbyUsers' = WithInGame(lobbyUsers, s, TRUE)
                /\ out' = << Msg(s, "startGame", gameState), LobbyData(lobbyUsers') >>
                /\ ev' = Event("playWithBot", "started")
                /\ UNCHANGED <<crashed, closed>>

\* the end of playerMove: the game and the users as the handler left them;
\* ok = FALSE when a score update threw before the emits
MoveDone(k, game, res) ==
    /\ Capped(res.users)
    /\ ongoingGames' = [ongoingGames EXCEPT ![k] = game]
    /\ lobbyUsers' = res.users
    /\ crashed' = ~res.ok
    /\ out' = IF res.ok
              THEN << Msg(game.gameId, "updateGame", game), LobbyData(res.users) >>
              ELSE << >>
    /\ ev' = Event("playerMove", IF res.ok THEN "moved" ELSE "threw")
    /\ UNCHANGED closed

\* socket.on("playerMove")
PlayerMove(s, gameId, cellIndex) ==
    /\ ~crashed /\ Open(s)
    /\ UNCHANGED srvvars
    /\ LET k == IndexOf(ongoingGames, gameId) IN
       IF k = 0 THEN Return("playerMove", "no game")
       ELSE LET game == ongoingGames[k] IN
       IF cellIndex \notin AllCells THEN Return("playerMove", "range")
       ELSE IF game.board[cellIndex] # Null THEN Return("playerMove", "claimed")
       ELSE IF game.winner # Null THEN Return("playerMove", "over")
       ELSE LET pl == FindPlayer(game, LAMBDA p : p.socketId = s) IN
       IF pl = 0 THEN Return("playerMove", "not bound")
       ELSE IF ~MayMove(game, s) THEN Return("playerMove", "not your turn")
       ELSE LET g1 == [game EXCEPT !.board[cellIndex] = game.players[pl].symbol]
                result == checkWinner(g1.board)
            IN
            IF result # Null
            THEN MoveDone(k, [g1 EXCEPT !.winner = result],
                          ApplyIncs(lobbyUsers, HumanIncs(g1, result)))
            ELSE LET g2 == [g1 EXCEPT !.currentPlayer = Flip(g1.currentPlayer)] IN
                 IF g2.isBotGame /\ g2.currentPlayer = "O"
                    /\ EmptyIndices(g2.board) # {}
                 THEN \E botMove \in EmptyIndices(g2.board) :
                        LET g3 == [g2 EXCEPT !.board[botMove] = "O"]
                            botResult == checkWinner(g3.board)
                        IN  IF botResult # Null
                            THEN MoveDone(k, [g3 EXCEPT !.winner = botResult],
                                          ApplyIncs(lobbyUsers, BotIncs(g3, botResult)))
                            ELSE MoveDone(k, [g3 EXCEPT !.currentPlayer = "X"],
                                          [users |-> lobbyUsers, ok |-> TRUE])
                 ELSE MoveDone(k, g2, [users |-> lobbyUsers, ok |-> TRUE])

\* a reset that leaves the board as it is
KeepBoard(game) == [game EXCEPT !.currentPlayer = "X", !.winner = Null]

\* a reset that leaves the result of the round in place
ResetKeepsResult(game) ==
    [game EXCEPT !.board = createEmptyBoard, !.currentPlayer = "X"]

\* requestReplay: the game with board, turn and result reset
ResetGame(game) ==
    [game EXCEPT !.board = createEmptyBoard, !.currentPlayer = "X", !.winner = Null]

\* socket.on("requestReplay")
RequestReplay(s, gameId) ==
    /\ ~crashed /\ Open(s)
    /\ UNCHANGED srvvars
    /\ LET k == IndexOf(ongoingGames, gameId) IN
       IF k = 0 THEN Return("requestReplay", "no game")
       ELSE LET game == ongoingGames[k] IN
       IF game.isBotGame
       THEN /\ ongoingGames' = [ongoingGames EXCEPT ![k] = ResetGame(game)]
            /\ out' = << Msg(gameId, "updateGame", ResetGame(game)) >>
            /\ ev' = Event("requestReplay", "reset")
            /\ UNCHANGED <<lobbyUsers, crashed, closed>>
       ELSE LET reqs == IF \E i \in 1..Len(game.replayRequests) :
                               game.replayRequests[i] = s
                        THEN game.replayRequests
                        ELSE Append(game.replayRequests, s)
            IN  IF Len(reqs) = 2
                THEN LET g == [ResetGame(game) EXCEPT !.replayRequests = << >>]
                     IN  /\ ongoingGames' = [ongoingGames EXCEPT ![k] = g]
                         /\ out' = << Msg(gameId, "updateGame", g) >>
                         /\ ev' = Event("requestReplay", "reset")
                         /\ UNCHANGED <<lobbyUsers, crashed, closed>>
                ELSE /\ ongoingGames' =
                            [ongoingGames EXCEPT ![k].replayRequests = reqs]
                     /\ out' = << >>
                     /\ ev' = Event("requestReplay", "recorded")
                     /\ UNCHANGED <<lobbyUsers, crashed, closed>>

Abandoned(game) == [game EXCEPT !.winner = "abandoned"]

\* socket.on("exitToLobby")
ExitToLobby(s, gameId) ==
    /\ ~crashed /\ Open(s)
    /\ UNCHANGED srvvars
    /\ LET k == IndexOf(ongoingGames, gameId) IN
       IF k = 0 THEN Return("exitToLobby", "no game")
       ELSE LET game == ongoingGames[k]
                u1 == WithInGame(lobbyUsers, s, FALSE)
                opp == FindPlayer(game, LAMBDA p : p.socketId # s)
                notify == ~game.isBotGame /\ opp # 0
                          /\ game.players[opp].socketId # BOT
                u2 == IF notify
                      THEN WithInGame(u1, game.players[opp].socketId, FALSE)
                      ELSE u1
            IN  /\ lobbyUsers' = u2
                /\ ongoingGames' = DeleteGame(ongoingGames, gameId)
                /\ out' = (IF notify
                           THEN << Msg(game.players[opp].socketId, "updateGame",
                                       Abandoned(game)) >>
                           ELSE << >>)
                          \o << LobbyData(u2), Msg(s, "returnedToLobby", Null) >>
                /\ ev' = Event("exitToLobby", "left")
                /\ UNCHANGED <<crashed, closed>>

\* socket.on("disconnect"): the first game, in insertion order, that binds s
FirstGameOf(games, s) ==
    IF \E k \in 1..Len(games) : s \in Bound(games[k])
    THEN Min({k \in 1..Len(games) : s \in Bound(games[k])})
    ELSE 0

Disconnect(s) ==
    /\ ~crashed /\ Open(s)
    /\ UNCHANGED srvvars
    /\ closed' = closed \cup {s}
    /\ IF ~Has(lobbyUsers, s)
       THEN /\ ev' = Event("disconnect", "absent")
            /\ out' = << >>
            /\ UNCHANGED <<lobbyUsers, ongoingGames, crashed>>
       ELSE LET u1 == DeleteUser(lobbyUsers, s)
                k == FirstGameOf(ongoingGames, s)
            IN
            IF k = 0
            THEN /\ lobbyUsers' = u1
                 /\ out' = << LobbyData(u1) >>
                 /\ ev' = Event("disconnect", "no game")
                 /\ UNCHANGED <<ongoingGames, crashed>>
            ELSE LET game == ongoingGames[k]
                     opp == FindPlayer(game, LAMBDA p : p.socketId # s)
                     notify == opp # 0 /\ game.players[opp].socketId # BOT
                 IN
                 IF notify /\ ~Has(u1, game.players[opp].socketId)
                 THEN \* lobbyUsers.get(opponent.socketId) is undefined: TypeError
                      /\ lobbyUsers' = u1
                      /\ crashed' = TRUE
                      /\ out' = << >>
                      /\ ev' = Event("disconnect", "threw")
                      /\ UNCHANGED ongoingGames
                 ELSE LET u2 == IF notify
                                THEN WithInGame(u1, game.players[opp].socketId, FALSE)
                                ELSE u1
                      IN  /\ lobbyUsers' = u2
                          /\ ongoingGames' = DeleteGame(ongoingGames, game.gameId)
                          /\ out' = (IF notify
                                     THEN << Msg(game.players[opp].socketId,
                                                 "updateGame", Abandoned(game)) >>
                                     ELSE << >>)
                                    \o << LobbyData(u2) >>
                          /\ ev' = Event("disconnect", "left")
                          /\ UNCHANGED crashed

----------------------------------------------------------------------------
(* server.js (lines 1-286): helpers *)

\* player1 + player2 + Date.now()
SrvGameId(player1, player2, t) == <<player1, player2, t>>

\* gameId arguments clients send to the makeMove server
SrvGameArgs == {SrvGameId(p1, p2, t) : p1 \in SrvConns, p2 \in SrvConns, t \in Times}

\* checkWinner of server.js: the mark of the first complete combo, else null
srvCheckWinner(board) ==
    IF Complete(board) # {}
    THEN board[combos[Min(Complete(board))][1]]
    ELSE Null

isDraw(board) == \A i \in AllCells : board[i] # Null

\* the reference stored under a key of activeGames, or 0
RefOf(games, gameId) ==
    IF IndexOf(games, gameId) = 0 THEN 0 ELSE games[IndexOf(games, gameId)].ref

\* a reference no live object has
FreshRef(h) == Min({r \in 1..(Cardinality(DOMAIN h) + 1) : r \notin DOMAIN h})

\* the objects still reachable from activeGames or from a suspended handler
Reachable(games, tk) ==
    {games[k].ref : k \in 1..Len(games)}
        \cup {t.ref : t \in {x \in BagToSet(tk) : x.kind = "move"}}

Collect(h, games, tk) == [r \in DOMAIN h \cap Reachable(games, tk) |-> h[r]]

\* getLobbyUsers
getLobbyUsers(users, games, h) ==
    LET inGamePlayers ==
            UNION {{h[games[k].ref].player1, h[games[k].ref].player2} :
                     k \in 1..Len(games)}
    IN  {[socketId |-> id, username |-> users[id],
          status |-> IF id \in inGamePlayers THEN "in-game" ELSE "available"] :
            id \in DOMAIN users}

LobbyUpdate(users, games, h) ==
    Msg(ALL, "lobbyUpdate", getLobbyUsers(users, games, h))

\* activeUsers[id]: undefined for a socket that is not in the map
NameOf(users, id) == IF id \in DOMAIN users THEN users[id] ELSE "undefined"

\* db.data.users.find(u => u.username === name) finds a record
InDb(db, name) == name \in DOMAIN db

SrvReturn(name, exit) ==
    /\ ev' = Event(name, exit)
    /\ out' = << >>
    /\ UNCHANGED <<activeUsers, activeGames, heap, dbUsers, tasks, timers,
                   crashed, closed>>

\* an exception inside an async handler is an unhandled rejection: the handler
\* is gone, and the process ends or goes on, depending on the runtime
Rejection == crashed' \in {crashed, TRUE}

SrvGame(player1, player2) ==
    [player1 |-> player1, player2 |-> player2, board |-> createEmptyBoard,
     currentTurn |-> player1, winner |-> Null]

\* a handler suspended at an await
Task(kind, pc, ref, gameId, winner, gameOver, quitterId, opponentId) ==
    [kind |-> kind, pc |-> pc, ref |-> ref, gameId |-> gameId, winner |-> winner,
     gameOver |-> gameOver, quitterId |-> quitterId, opponentId |-> opponentId]

MoveTask(pc, ref, gameId, winner, gameOver) ==
    Task("move", pc, ref, gameId, winner, gameOver, Null, Null)

QuitTask(pc, gameId, quitterId, opponentId) ==
    Task("quit", pc, 0, gameId, Null, FALSE, quitterId, opponentId)

Pending(kind, pc) == {t \in BagToSet(tasks) : t.kind = kind /\ t.pc = pc}

Add(tk, t) == tk (+) SetToBag({t})
Remove(tk, t) == tk (-) SetToBag({t})

DbCapped(db) ==
    \A n \in DOMAIN db :
        db[n].games <= MaxScore + 1 /\ db[n].wins <= MaxScore
            /\ db[n].losses <= MaxScore

\* u.field += 1 for each <<username, field>> of incs, in order; the first
\* username without a record throws and the rest is skipped
RECURSIVE DbIncs(_, _)
DbIncs(db, incs) ==
    IF incs = << >> THEN [db |-> db, ok |-> TRUE]
    ELSE LET n == Head(incs)[1]
             field == Head(incs)[2]
         IN  IF ~InDb(db, n) THEN [db |-> db, ok |-> FALSE]
             ELSE DbIncs([db EXCEPT ![n][field] = @ + 1], Tail(incs))

----------------------------------------------------------------------------
(* server.js (lines 1-286): the handlers *)

\* app.get('/login'): getOrCreateUser
Login(username) ==
    /\ ~crashed
    /\ ~InDb(dbUsers, username)
    /\ dbUsers' = [n \in DOMAIN dbUsers \cup {username} |->
                     IF n = username THEN [games |-> 0, wins |-> 0, losses |-> 0]
                     ELSE dbUsers[n]]
    /\ ev' = Event("login", "created")
    /\ out' = << >>
    /\ UNCHANGED <<activeUsers, activeGames, heap, tasks, timers, crashed, closed>>
    /\ UNCHANGED p3vars

\* socket.on('joinLobby')
SrvJoinLobby(s, username) ==
    /\ ~crashed /\ Open(s)
    /\ UNCHANGED p3vars
    /\ activeUsers' = SetUser(activeUsers, s, username)
    /\ out' = << LobbyUpdate(activeUsers', activeGames, heap) >>
    /\ ev' = Event("joinLobby", "joined")
    /\ UNCHANGED <<activeGames, heap, dbUsers, tasks, timers, crashed, closed>>

\* socket.on('challengePlayer')
ChallengePlayer(s, challengedSocketId) ==
    /\ ~crashed /\ Open(s)
    /\ UNCHANGED p3vars
    /\ out' = << Msg(challengedSocketId, "challengeReceived",
                     [challengerSocketId |-> s,
                      challengerUsername |-> NameOf(activeUsers, s)]) >>
    /\ ev' = Event("challengePlayer", "sent")
    /\ UNCHANGED <<activeUsers, activeGames, heap, dbUsers, tasks, timers,
                   crashed, closed>>

\* socket.on('acceptChallenge'); now is the value of Date.now()
AcceptChallenge(s, challengerSocketId, now) ==
    /\ ~crashed /\ Open(s)
    /\ UNCHANGED p3vars
    /\ LET player1 == challengerSocketId
           player2 == s
           gameId == SrvGameId(player1, player2, now)
           ref == FreshRef(heap)
           games == SetGame(activeGames, [gameId |-> gameId, ref |-> ref])
           h == [r \in DOMAIN heap \cup {ref} |->
                   IF r = ref THEN SrvGame(player1, player2) ELSE heap[r]]
       IN  /\ activeGames' = games
           /\ heap' = Collect(h, games, tasks)
           /\ out' = << Msg(player1, "startGame",
                            [gameId |-> gameId, yourTurn |-> TRUE, symbol |-> "X"]),
                        Msg(player2, "startGame",
                            [gameId |-> gameId, yourTurn |-> FALSE, symbol |-> "O"]),
                        LobbyUpdate(activeUsers, games, heap') >>
    /\ ev' = Event("acceptChallenge", "started")
    /\ UNCHANGED <<activeUsers, dbUsers, tasks, timers, crashed, closed>>

\* socket.on('declineChallenge')
DeclineChallenge(s, challengerSocketId) ==
    /\ ~crashed /\ Open(s)
    /\ UNCHANGED p3vars
    /\ out' = << Msg(challengerSocketId, "challengeDeclined", Null) >>
    /\ ev' = Event("declineChallenge", "sent")
    /\ UNCHANGED <<activeUsers, activeGames, heap, dbUsers, tasks, timers,
                   crashed, closed>>

\* the model suspends no more than MaxTasks handlers at a time
Room == BagCardinality(tasks) < MaxTasks

\* socket.on('makeMove'), up to `await initDB()`
MakeMove(s, gameId, index, symbol) ==
    /\ ~crashed /\ Open(s) /\ Room
    /\ UNCHANGED p3vars
    /\ LET ref == RefOf(activeGames, gameId) IN
       IF ref = 0 THEN SrvReturn("makeMove", "no game")
       ELSE IF heap[ref].currentTurn # s THEN SrvReturn("makeMove", "not your turn")
       ELSE IF index \notin AllCells THEN SrvReturn("makeMove", "range")
       ELSE IF heap[ref].board[index] # Null THEN SrvReturn("makeMove", "claimed")
       ELSE LET game == heap[ref]
                board == [game.board EXCEPT ![index] = symbol]
                winner == srvCheckWinner(board)
                g == [game EXCEPT !.board = board,
                                  !.currentTurn = IF game.currentTurn = game.player1
                                                  THEN game.player2 ELSE game.player1,
                                  !.winner = winner]
            IN  /\ heap' = [heap EXCEPT ![ref] = g]
                /\ tasks' = Add(tasks, MoveTask("init", ref, gameId, winner, FALSE))
                /\ out' = << >>
                /\ ev' = Event("makeMove", "await initDB")
                /\ UNCHANGED <<activeUsers, activeGames, dbUsers, timers,
                               crashed, closed>>

\* the two boardUpdate emits of makeMove and the teardown timer
BoardUpdates(game, gameOver) ==
    << Msg(game.player1, "boardUpdate",
           [board |-> game.board, yourTurn |-> game.currentTurn = game.player1,
            gameOver |-> gameOver, winner |-> game.winner]),
       Msg(game.player2, "boardUpdate",
           [board |-> game.board, yourTurn |-> game.currentTurn = game.player2,
            gameOver |-> gameOver, winner |-> game.winner]) >>

\* makeMove, from the end of `await initDB()` to the next await or to the end
MoveStats(t) ==
    /\ ~crashed
    /\ t \in Pending("move", "init")
    /\ UNCHANGED p3vars
    /\ LET game == heap[t.ref]
           winnerId == IF t.winner = "X" THEN game.player1 ELSE game.player2
           loserId == IF t.winner = "X" THEN game.player2 ELSE game.player1
           incs == IF t.winner # Null
                   THEN << <<NameOf(activeUsers, winnerId), "games">>,
                           <<NameOf(activeUsers, winnerId), "wins">>,
                           <<NameOf(activeUsers, loserId), "games">>,
                           <<NameOf(activeUsers, loserId), "losses">> >>
                   ELSE << <<NameOf(activeUsers, game.player1), "games">>,
                           <<NameOf(activeUsers, game.player2), "games">> >>
           res == DbIncs(dbUsers, incs)
       IN  IF t.winner # Null \/ isDraw(game.board)
           THEN /\ DbCapped(res.db)
                /\ dbUsers' = res.db
                /\ out' = << >>
                /\ IF res.ok
                   THEN /\ tasks' = Add(Remove(tasks, t),
                                        MoveTask("emit", t.ref, t.gameId, t.winner, TRUE))
                        /\ ev' = Event("makeMove", "await write")
                        /\ UNCHANGED <<crashed, heap>>
                   ELSE /\ tasks' = Remove(tasks, t)
                        /\ heap' = Collect(heap, activeGames, tasks')
                        /\ ev' = Event("makeMove", "threw")
                        /\ Rejection
                /\ UNCHANGED <<activeUsers, activeGames, timers, closed>>
           ELSE /\ tasks' = Remove(tasks, t)
                /\ heap' = Collect(heap, activeGames, tasks')
                /\ out' = BoardUpdates(game, FALSE)
                /\ ev' = Event("makeMove", "moved")
                /\ UNCHANGED <<activeUsers, activeGames, dbUsers, timers,
                               crashed, closed>>

\* makeMove, from the end of `await db.write()` to the end
MoveEmit(t) ==
    /\ ~crashed
    /\ t \in Pending("move", "emit")
    /\ UNCHANGED p3vars
    /\ tasks' = Remove(tasks, t)
    /\ heap' = Collect(heap, activeGames, tasks')
    /\ out' = BoardUpdates(heap[t.ref], t.gameOver)
    /\ timers' = IF t.gameOver THEN Append(timers, t.gameId) ELSE timers
    /\ ev' = Event("makeMove", "over")
    /\ UNCHANGED <<activeUsers, activeGames, dbUsers, crashed, closed>>

\* the setTimeout callback of makeMove
TimerFires ==
    /\ ~crashed
    /\ timers # << >>
    /\ UNCHANGED p3vars
    /\ activeGames' = DeleteGame(activeGames, Head(timers))
    /\ heap' = Collect(heap, activeGames', tasks)
    /\ timers' = Tail(timers)
    /\ out' = << LobbyUpdate(activeUsers, activeGames', heap') >>
    /\ ev' = Event("timer", "fired")
    /\ UNCHANGED <<activeUsers, dbUsers, tasks, crashed, closed>>

\* socket.on('quitGame'), up to `await initDB()`
QuitGame(s, gameId) ==
    /\ ~crashed /\ Open(s) /\ Room
    /\ UNCHANGED p3vars
    /\ LET ref == RefOf(activeGames, gameId) IN
       IF ref = 0 THEN SrvReturn("quitGame", "no game")
       ELSE LET game == heap[ref]
                opponentId == IF s = game.player1 THEN game.player2 ELSE game.player1
            IN  /\ tasks' = Add(tasks, QuitTask("init", gameId, s, opponentId))
                /\ out' = << >>
                /\ ev' = Event("quitGame", "await initDB")
                /\ UNCHANGED <<activeUsers, activeGames, heap, dbUsers, timers,
                               crashed, closed>>

\* quitGame, from the end of `await initDB()` to `await db.write()`
QuitStats(t) ==
    /\ ~crashed
    /\ t \in Pending("quit", "init")
    /\ UNCHANGED p3vars
    /\ LET q == NameOf(activeUsers, t.quitterId)
           o == NameOf(activeUsers, t.opponentId)
           res == DbIncs(dbUsers, << <<q, "games">>, <<q, "losses">>,
                                     <<o, "games">>, <<o, "wins">> >>)
       IN  /\ DbCapped(res.db)
           /\ dbUsers' = res.db
           /\ out' = << >>
           /\ IF res.ok
              THEN /\ tasks' = Add(Remove(tasks, t),
                                   QuitTask("emit", t.gameId, t.quitterId, t.opponentId))
                   /\ ev' = Event("quitGame", "await write")
                   /\ UNCHANGED crashed
              ELSE /\ tasks' = Remove(tasks, t)
                   /\ ev' = Event("quitGame", "threw")
                   /\ Rejection
    /\ UNCHANGED <<activeUsers, activeGames, heap, timers, closed>>

\* quitGame, from the end of `await db.write()` to the end
QuitEmit(t) ==
    /\ ~crashed
    /\ t \in Pending("quit", "emit")
    /\ UNCHANGED p3vars
    /\ tasks' = Remove(tasks, t)
    /\ activeGames' = DeleteGame(activeGames, t.gameId)
    /\ heap' = Collect(heap, activeGames', tasks')
    /\ out' = << Msg(t.opponentId, "opponentQuit", Null),
                 Msg(t.quitterId, "youQuit", Null),
                 LobbyUpdate(activeUsers, activeGames', heap') >>
    /\ ev' = Event("quitGame", "quit")
    /\ UNCHANGED <<activeUsers, dbUsers, timers, crashed, closed>>

\* the db.read() or db.write() a handler awaits rejects
DbFails(t) ==
    /\ ~crashed
    /\ t \in BagToSet(tasks)
    /\ UNCHANGED p3vars
    /\ tasks' = Remove(tasks, t)
    /\ heap' = Collect(heap, activeGames, tasks')
    /\ out' = << >>
    /\ ev' = Event(t.kind, "db failed")
    /\ Rejection
    /\ UNCHANGED <<activeUsers, activeGames, dbUsers, timers, closed>>

\* socket.on('disconnect')
SrvDisconnect(s) ==
    /\ ~crashed /\ Open(s)
    /\ UNCHANGED p3vars
    /\ closed' = closed \cup {s}
    /\ activeUsers' = DeleteUser(activeUsers, s)
    /\ out' = << LobbyUpdate(activeUsers', activeGames, heap) >>
    /\ ev' = Event("disconnect", "left")
    /\ UNCHANGED <<activeGames, heap, dbUsers, tasks, timers, crashed>>

----------------------------------------------------------------------------
(* part_005: the server whose playerMove has no bot reply. Its maps have   *)
(* the shape of part_003's and are kept in the same variables; joinLobby    *)
(* (36-40), playWithBot (98-121) and requestReplay (154-175) have the text  *)
(* of part_003's handlers, whose actions stand for them.                    *)

\* the end of playerMove: updateGame is the only emit
P5MoveDone(k, game, res) ==
    /\ Capped(res.users)
    /\ ongoingGames' = [ongoingGames EXCEPT ![k] = game]
    /\ lobbyUsers' = res.users
    /\ crashed' = ~res.ok
    /\ out' = IF res.ok THEN << Msg(game.gameId, "updateGame", game) >> ELSE << >>
    /\ ev' = Event("playerMove", IF res.ok THEN "moved" ELSE "threw")
    /\ UNCHANGED closed

\* socket.on("playerMove")
P5PlayerMove(s, gameId, cellIndex) ==
    /\ ~crashed /\ Open(s)
    /\ UNCHANGED srvvars
    /\ LET k == IndexOf(ongoingGames, gameId) IN
       IF k = 0 THEN Return("playerMove", "no game")
       ELSE LET game == ongoingGames[k] IN
       IF cellIndex \notin AllCells THEN Return("playerMove", "range")
       ELSE IF game.board[cellIndex] # Null THEN Return("playerMove", "claimed")
       ELSE IF game.winner # Null THEN Return("playerMove", "over")
       ELSE LET pl == FindPlayer(game, LAMBDA p : p.socketId = s) IN
       IF pl = 0 THEN Return("playerMove", "not bound")
       ELSE IF game.currentPlayer # game.players[pl].symbol
       THEN Return("playerMove", "not your turn")
       ELSE LET g1 == [game EXCEPT !.board[cellIndex] = game.players[pl].symbol]
                winner == checkWinner(g1.board)
            IN  IF winner # Null
                THEN P5MoveDone(k, [g1 EXCEPT !.winner = winner],
                                ApplyIncs(lobbyUsers, HumanIncs(g1, winner)))
                ELSE P5MoveDone(k, [g1 EXCEPT !.currentPlayer =
                                      IF g1.currentPlayer = "X" THEN "O" ELSE "X"],
                                [users |-> lobbyUsers, ok |-> TRUE])

----------------------------------------------------------------------------
(* Specifications *)

EmptyMap == [k \in {} |-> Null]

\* both servers right after start-up: empty maps, no socket has connected
Init ==
    /\ lobbyUsers = EmptyMap
    /\ ongoingGames = << >>
    /\ crashed = FALSE
    /\ closed = {}
    /\ out = << >>
    /\ ev = Event("start", "listening")
    /\ activeUsers = EmptyMap
    /\ activeGames = << >>
    /\ heap = EmptyMap
    /\ dbUsers = EmptyMap
    /\ tasks = EmptyBag
    /\ timers = << >>

\* a socket id no connection has
Stranger == "zz"

\* part_003, three sockets: a and c challenge, play the bot and ask for a
\* replay, b answers; any socket may move or exit (naming any game), a and b
\* may disconnect
Next ==
    \/ \E s \in LobbyConns, username \in LobbyNames : JoinLobby(s, username)
    \/ \E s \in Challengers, opponentId \in LobbyConns \cup {Stranger} :
          ChallengeUser(s, opponentId)
    \/ \E s \in Responders, from \in Challengers \cup {Stranger},
          accepted \in BOOLEAN, gameId \in GameIds :
          ChallengeResponse(s, from, accepted, gameId)
    \/ \E s \in Challengers, gameId \in GameIds : PlayWithBot(s, gameId)
    \/ \E s \in LobbyConns, gameId \in GameArgs, cellIndex \in LobbyCells :
          PlayerMove(s, gameId, cellIndex)
    \/ \E s \in Challengers, gameId \in GameArgs : RequestReplay(s, gameId)
    \/ \E s \in LobbyConns, gameId \in GameArgs : ExitToLobby(s, gameId)
    \/ \E s \in Leavers : Disconnect(s)

Spec == Init /\ [][Next]_vars

\* part_003, the whole board: a challenges b, or plays the bot; c is bound to
\* no game and only sends moves
NextGame ==
    \/ \E s \in GameConns, username \in LobbyNames : JoinLobby(s, username)
    \/ \E accepted \in BOOLEAN : ChallengeResponse("b", "a", accepted, "game_1")
    \/ PlayWithBot("a", "game_1")
    \/ \E s \in GameConns \cup {"c"}, gameId \in {"game_1", NoSuchGame} :
          \E cellIndex \in CellsOf(s) : PlayerMove(s, gameId, cellIndex)
    \/ \E s \in GameConns : RequestReplay(s, "game_1")
    \/ \E s \in GameConns : ExitToLobby(s, "game_1")

SpecGame == Init /\ [][NextGame]_vars

\* part_003, a participant that has left: b and c play the bot, b exits, answers
\* a's challenge and disconnects; a and b play the upper two rows
NextStale ==
    \/ \E s \in LobbyConns, username \in LobbyNames : JoinLobby(s, username)
    \/ PlayWithBot("b", "game_1")
    \/ PlayWithBot("c", "game_2")
    \/ \E gameId \in GameIds : ExitToLobby("b", gameId)
    \/ \E accepted \in BOOLEAN : ChallengeResponse("b", "a", accepted, "game_2")
    \/ \E cellIndex \in {0, 1, 2} : PlayerMove("a", "game_2", cellIndex)
    \/ \E cellIndex \in {3, 4} : PlayerMove("b", "game_2", cellIndex)
    \/ Disconnect("b")

SpecStale == Init /\ [][NextStale]_vars

\* server.js, the lobby: a and c challenge b, b answers; a and b may quit the
\* game they start, and a may disconnect
NextSrv ==
    \/ \E username \in Names : Login(username)
    \/ \E s \in SrvConns : SrvJoinLobby(s, AccountOf(s))
    \/ \E s \in Challengers, to \in Responders : ChallengePlayer(s, to)
    \/ \E s \in Responders, from \in Challengers, now \in Times :
          AcceptChallenge(s, from, now)
    \/ \E s \in Responders, from \in Challengers : DeclineChallenge(s, from)
    \/ \E s \in GameConns : QuitGame(s, SrvGameId("a", "b", "t1"))
    \/ \E t \in BagToSet(tasks) : QuitStats(t)
    \/ \E t \in BagToSet(tasks) : QuitEmit(t)
    \/ \E t \in BagToSet(tasks) : DbFails(t)
    \/ SrvDisconnect("a")

\* server.js, one game: a challenges b, b accepts, and they play on the top
\* row; a marks X, b marks what it likes
NextSrvGame ==
    \/ \E username \in Names : Login(username)
    \/ \E s \in GameConns : SrvJoinLobby(s, AccountOf(s))
    \/ \E now \in Times : AcceptChallenge("b", "a", now)
    \/ \E index \in SrvCells : MakeMove("a", SrvGameId("a", "b", "t1"), index, "X")
    \/ \E index \in SrvCells, symbol \in {"X", "O"} :
          MakeMove("b", SrvGameId("a", "b", "t1"), index, symbol)
    \/ \E t \in BagToSet(tasks) : MoveStats(t)
    \/ \E t \in BagToSet(tasks) : MoveEmit(t)
    \/ TimerFires
    \/ \E s \in GameConns : QuitGame(s, SrvGameId("a", "b", "t1"))
    \/ \E t \in BagToSet(tasks) : QuitStats(t)
    \/ \E t \in BagToSet(tasks) : QuitEmit(t)
    \/ \E t \in BagToSet(tasks) : DbFails(t)
    \/ SrvDisconnect("a")

SpecSrvGame == Init /\ [][NextSrvGame]_vars

SpecSrv == Init /\ [][NextSrv]_vars

\* part_005: a and b each play the bot
NextSolo5 ==
    \/ \E s \in GameConns, username \in LobbyNames : JoinLobby(s, username)
    \/ PlayWithBot("a", "game_1")
    \/ PlayWithBot("b", "game_2")
    \/ \E s \in GameConns, gameId \in GameIds, cellIndex \in {0, 1, 2, 9} :
          P5PlayerMove(s, gameId, cellIndex)
    \/ \E s \in GameConns, gameId \in GameIds : RequestReplay(s, gameId)

SpecSolo5 == Init /\ [][NextSolo5]_vars

\* both lobbies side by side: a challenges b and b answers, in part_003 and
\* in server.js
NextAccept ==
    \/ \E s \in GameConns, username \in LobbyNames : JoinLobby(s, username)
    \/ ChallengeUser("a", "b")
    \/ \E accepted \in BOOLEAN, gameId \in GameIds :
          ChallengeResponse("b", "a", accepted, gameId)
    \/ \E s \in GameConns, gameId \in GameIds : ExitToLobby(s, gameId)
    \/ \E s \in GameConns : SrvJoinLobby(s, AccountOf(s))
    \/ ChallengePlayer("a", "b")
    \/ \E now \in Times : AcceptChallenge("b", "a", now)
    \/ DeclineChallenge("b", "a")

SpecAccept == Init /\ [][NextAccept]_vars

\* part_003: a and b join under either name, again and again, while they
\* play each other on the upper two rows
NextRejoin ==
    \/ \E s \in GameConns, username \in Names : JoinLobby(s, username)
    \/ \E accepted \in BOOLEAN : ChallengeResponse("b", "a", accepted, "game_1")
    \/ \E cellIndex \in {0, 1, 2} : PlayerMove("a", "game_1", cellIndex)
    \/ \E cellIndex \in {3, 4} : PlayerMove("b", "game_1", cellIndex)
    \/ \E s \in GameConns : ExitToLobby(s, "game_1")

SpecRejoin == Init /\ [][NextRejoin]_vars

----------------------------------------------------------------------------
(* Properties *)

\* the games of a Map that bind socket s
GamesOf(games, s) == {k \in 1..Len(games) : s \in Bound(games[k])}

\* the messages of a handler with the given event, addressed to the given room
Sent(msgs, to, event) ==
    {msgs[i] : i \in {j \in 1..Len(msgs) : msgs[j].to = to /\ msgs[j].event = event}}

Emitted(msgs, event) ==
    {msgs[i] : i \in {j \in 1..Len(msgs) : msgs[j].event = event}}

\* the disconnect handler has just run for s
Leaves(s) == s \notin closed /\ s \in closed'

\* C1: no connection id is a participant of more than one entry of the
\* ongoing-games table
C1_OneSessionPerSocket ==
    \A s \in LobbyConns : Cardinality(GamesOf(ongoingGames, s)) <= 1

\* the entries of activeGames that have s as player1 or player2
SrvGamesOf(games, h, s) ==
    {k \in 1..Len(games) : s \in {h[games[k].ref].player1, h[games[k].ref].player2}}

\* C2: after the disconnect handler has run for connection c, no entry of the
\* active-games table (of either server) has c as one of its participants
C2_NoDanglingSession ==
    [][\A s \in SrvConns :
         Leaves(s) =>
            /\ SrvGamesOf(activeGames', heap', s) = {}
            /\ GamesOf(ongoingGames', s) = {}]_vars

\* the game stored under gameId
GameAt(games, gameId) == games[IndexOf(games, gameId)]

\* the sockets a human side of the game is bound to
Humans(game) == Bound(game) \ {BOT}

\* C3: when participant A of a non-terminal two-human session with B
\* disconnects, B is sent an updateGame with result 'abandoned', and B is
\* available when the handler finishes and in the snapshot it broadcasts
C3_OpponentToldAbandoned ==
    [][\A a \in LobbyConns, b \in LobbyConns :
         ( /\ a # b
           /\ Leaves(a)
           /\ Has(lobbyUsers, b)
           /\ \E k \in 1..Len(ongoingGames) :
                 /\ ~ongoingGames[k].isBotGame
                 /\ ongoingGames[k].winner = Null
                 /\ Bound(ongoingGames[k]) = {a, b} )
         =>
         ( /\ \E m \in Sent(out', b, "updateGame") : m.data.winner = "abandoned"
           /\ Has(lobbyUsers', b) /\ ~lobbyUsers'[b].inGame
           /\ \E m \in Emitted(out', "lobbyData") :
                 \E r \in m.data : r.socketId = b /\ ~r.inGame )]_vars

\* the cases in which a move is to be rejected
Rejectable(s, gameId, cellIndex) ==
    \/ IndexOf(ongoingGames, gameId) = 0
    \/ GameAt(ongoingGames, gameId).winner # Null
    \/ cellIndex \notin 0..8
    \/ GameAt(ongoingGames, gameId).board[cellIndex] # Null
    \/ ~\E i \in 1..2 :
          /\ GameAt(ongoingGames, gameId).players[i].socketId = s
          /\ GameAt(ongoingGames, gameId).players[i].symbol
                = GameAt(ongoingGames, gameId).currentPlayer

\* C4: a playerMove that names no session, a terminal session, a cell outside
\* 0..8 or a claimed cell, or that comes from a caller not bound to the side
\* to move, changes no session, score or directory state and emits no updateGame
C4_RejectedMoveChangesNothing ==
    [][\/ /\ UNCHANGED <<lobbyUsers, ongoingGames>>
           /\ Emitted(out', "updateGame") = {}
        \/ \A s \in GameConns \cup {"c"}, gameId \in {"game_1", NoSuchGame} :
              \A cellIndex \in CellsOf(s) :
                 ~(PlayerMove(s, gameId, cellIndex)
                     /\ Rejectable(s, gameId, cellIndex))]_vars

\* a move was rejected because the session already had a result
C4_MoveOnFinishedSession ==
    /\ ev = Event("playerMove", "over")
    /\ \E k \in 1..Len(ongoingGames) : ongoingGames[k].winner # Null

\* the last handler was a playerMove that changed the board of gameId
Moved(gameId) ==
    /\ ev'.name = "playerMove"
    /\ IndexOf(ongoingGames, gameId) # 0 /\ IndexOf(ongoingGames', gameId) # 0
    /\ GameAt(ongoingGames', gameId).board # GameAt(ongoingGames, gameId).board

\* the cells the step filled
Filled(gameId) ==
    {i \in AllCells : GameAt(ongoingGames', gameId).board[i]
                         # GameAt(ongoingGames, gameId).board[i]}

\* the step changed the side to move of a session that exists before and after
TurnChanged(gameId) ==
    /\ IndexOf(ongoingGames, gameId) # 0 /\ IndexOf(ongoingGames', gameId) # 0
    /\ GameAt(ongoingGames', gameId).currentPlayer
          # GameAt(ongoingGames, gameId).currentPlayer

\* the last handler was a requestReplay that reset the session
WasReset == ev'.name = "requestReplay" /\ ev'.exit = "reset"

\* C5 as stated: every accepted move without a terminal result flips the side
\* to move, a move with a terminal result leaves it, and only a move or a
\* rematch reset changes it
C5_EveryMoveFlips ==
    [][\A gameId \in GameIds :
         /\ Moved(gameId) =>
               IF GameAt(ongoingGames', gameId).winner = Null
               THEN TurnChanged(gameId) ELSE ~TurnChanged(gameId)
         /\ TurnChanged(gameId) => (Moved(gameId) \/ WasReset)]_vars

\* C5 amended: in a two-human session an accepted move flips the side to move
\* unless it is terminal; in a session against the bot the handler also plays
\* the bot's reply, so the side to move is X again after a non-terminal
\* exchange, stays X when the human's own move is terminal and is left at O
\* when the bot's reply is terminal; only a move or a rematch reset changes it
C5_MoveAlternates ==
    [][\A gameId \in GameIds :
         /\ (Moved(gameId) /\ ~GameAt(ongoingGames, gameId).isBotGame) =>
               IF GameAt(ongoingGames', gameId).winner = Null
               THEN TurnChanged(gameId) ELSE ~TurnChanged(gameId)
         /\ (Moved(gameId) /\ GameAt(ongoingGames, gameId).isBotGame) =>
               IF GameAt(ongoingGames', gameId).winner = Null
               THEN /\ Cardinality(Filled(gameId)) = 2
                    /\ GameAt(ongoingGames', gameId).currentPlayer = "X"
               ELSE IF Cardinality(Filled(gameId)) = 1
                    THEN ~TurnChanged(gameId)
                    ELSE /\ TurnChanged(gameId)
                         /\ GameAt(ongoingGames', gameId).currentPlayer = "O"
         /\ TurnChanged(gameId) => (Moved(gameId) \/ WasReset)]_vars

\* the bot has answered a move and it is X's turn again
C5_BotHasReplied ==
    /\ ev = Event("playerMove", "moved")
    /\ \E k \in 1..Len(ongoingGames) :
          /\ ongoingGames[k].isBotGame /\ ongoingGames[k].winner = Null
          /\ ongoingGames[k].currentPlayer = "X"
          /\ \E i \in AllCells : ongoingGames[k].board[i] = "O"

\* C6: an accepting response creates a session only if the challenger and the
\* responder are both registered and both outside every session when the
\* response is handled, in challengeResponse and in acceptChallenge alike
C6_SessionOnlyIfBothAvailable ==
    [][/\ \A s \in Responders, from \in Challengers \cup {Stranger} :
            ( /\ ev'.name = "challengeResponse"
              /\ \E gameId \in GameIds :
                    ChallengeResponse(s, from, TRUE, gameId)
              /\ ongoingGames' # ongoingGames )
            => \A x \in {s, from} :
                  /\ Has(lobbyUsers, x) /\ ~lobbyUsers[x].inGame
                  /\ GamesOf(ongoingGames, x) = {}
       /\ \A s \in Responders, from \in Challengers :
            ( /\ ev'.name = "acceptChallenge"
              /\ \E now \in Times : AcceptChallenge(s, from, now)
              /\ activeGames' # activeGames )
            => \A x \in {s, from} :
                  /\ x \in DOMAIN activeUsers
                  /\ SrvGamesOf(activeGames, heap, x) = {}]_vars

\* x is registered in the lobby and in no session
Available(x) == Has(lobbyUsers, x) /\ ~lobbyUsers[x].inGame

\* C7: challengeUser sends challengeRequest to the target if and only if the
\* challenger and the target are both registered and available; otherwise it
\* emits nothing and changes no state
C7_ChallengeOnlyBetweenAvailable ==
    [][\A s \in Challengers, opponentId \in LobbyConns \cup {Stranger} :
         (ev'.name = "challengeUser" /\ ChallengeUser(s, opponentId))
         => IF Available(s) /\ Available(opponentId)
            THEN Sent(out', opponentId, "challengeRequest") # {}
            ELSE out' = << >> /\ UNCHANGED <<lobbyUsers, ongoingGames>>]_vars

\* a challenge has been delivered
C7_ChallengeDelivered ==
    /\ ev = Event("challengeUser", "sent")
    /\ \E opponentId \in LobbyConns :
          Sent(out, opponentId, "challengeRequest") # {}

\* the connections that have asked for a rematch of the session
Requested(game) == {game.replayRequests[i] : i \in 1..Len(game.replayRequests)}

\* the step reset the session gameId or broadcast its state
ResetOrBroadcast(gameId) ==
    \/ Sent(out', gameId, "updateGame") # {}
    \/ /\ IndexOf(ongoingGames', gameId) # 0
       /\ <<GameAt(ongoingGames', gameId).board,
             GameAt(ongoingGames', gameId).currentPlayer,
             GameAt(ongoingGames', gameId).winner>>
            # <<GameAt(ongoingGames, gameId).board,
                GameAt(ongoingGames, gameId).currentPlayer,
                GameAt(ongoingGames, gameId).winner>>

\* C8: requestReplay resets or broadcasts a two-human session only when both
\* of its participants have asked: one of them is the sender and the other is
\* already among the recorded requests
C8_ResetNeedsBothParticipants ==
    [][\A gameId \in GameIds :
         ( /\ ev'.name = "requestReplay"
           /\ IndexOf(ongoingGames, gameId) # 0
           /\ ~GameAt(ongoingGames, gameId).isBotGame
           /\ ResetOrBroadcast(gameId) )
         => \E s \in Bound(GameAt(ongoingGames, gameId)) :
               Bound(GameAt(ongoingGames, gameId)) \ {s}
                  \subseteq Requested(GameAt(ongoingGames, gameId))]_vars

\* C10: exitToLobby by a participant of an existing session leaves that
\* participant available, removes the session, sends returnedToLobby to the
\* sender and, if the session was non-terminal with a human opponent, sends
\* the opponent updateGame 'abandoned' and leaves the opponent available
C10_ExitReleasesBoth ==
    [][\A s \in LobbyConns, gameId \in GameIds :
         ( /\ ev'.name = "exitToLobby"
           /\ IndexOf(ongoingGames, gameId) # 0
           /\ s \in Bound(GameAt(ongoingGames, gameId))
           /\ ExitToLobby(s, gameId) )
         => /\ Has(lobbyUsers', s) /\ ~lobbyUsers'[s].inGame
            /\ IndexOf(ongoingGames', gameId) = 0
            /\ Sent(out', s, "returnedToLobby") # {}
            /\ \A o \in Humans(GameAt(ongoingGames, gameId)) \ {s} :
                  ( /\ GameAt(ongoingGames, gameId).winner = Null
                    /\ ~GameAt(ongoingGames, gameId).isBotGame )
                  => /\ \E m \in Sent(out', o, "updateGame") :
                           m.data.winner = "abandoned"
                     /\ Has(lobbyUsers', o) /\ ~lobbyUsers'[o].inGame]_vars

\* the step gave the session gameId a result X, O or draw
Decided(gameId) ==
    /\ IndexOf(ongoingGames, gameId) # 0 /\ IndexOf(ongoingGames', gameId) # 0
    /\ GameAt(ongoingGames, gameId).winner = Null
    /\ GameAt(ongoingGames', gameId).winner \in {"X", "O", "draw"}

\* the counter the result moves for the participant that plays symbol
CounterFor(result, symbol) ==
    IF result = "draw" THEN "draws"
    ELSE IF result = symbol THEN "wins" ELSE "losses"

\* the score of a directory entry with one counter raised by one
Raised(score, field) == [score EXCEPT ![field] = @ + 1]

\* C9: when a move makes the result terminal, each human participant of the
\* session has exactly the counter of its outcome raised by one, no other
\* directory entry changes and nothing is recorded for the bot
C9_TerminalMoveCountsOnce ==
    [][\A gameId \in GameIds :
         Decided(gameId) =>
           LET game == GameAt(ongoingGames', gameId) IN
           /\ \A i \in 1..2 :
                 game.players[i].socketId # BOT =>
                   /\ Has(lobbyUsers, game.players[i].socketId)
                   /\ Has(lobbyUsers', game.players[i].socketId)
                   /\ lobbyUsers'[game.players[i].socketId].score
                        = Raised(lobbyUsers[game.players[i].socketId].score,
                                 CounterFor(game.winner, game.players[i].symbol))
           /\ DOMAIN lobbyUsers' = DOMAIN lobbyUsers
           /\ BOT \notin DOMAIN lobbyUsers'
           /\ \A id \in DOMAIN lobbyUsers \ Bound(game) :
                 lobbyUsers'[id] = lobbyUsers[id]]_vars

\* the rooms of a connection: socket.io puts a socket in the room of its own
\* id, and no handler of part_003 calls socket.join
RoomsOf(s) == {s}

\* the connections, other than those in shut, that a message reaches
Receivers(m, shut) ==
    {s \in LobbyConns \ shut : m.to = ALL \/ m.to \in RoomsOf(s)}

\* the connections that receive a message of the event
Receiving(msgs, event, shut) ==
    UNION {Receivers(m, shut) : m \in Emitted(msgs, event)}

\* the step was a rematch reset that changed the session gameId
ResetOf(gameId) ==
    /\ WasReset
    /\ IndexOf(ongoingGames, gameId) # 0 /\ IndexOf(ongoingGames', gameId) # 0
    /\ GameAt(ongoingGames', gameId) # GameAt(ongoingGames, gameId)

\* C11: after an accepted playerMove or a rematch reset the updateGame
\* notification reaches exactly the connections bound to the session: its
\* human participants and nobody else
C11_UpdateReachesParticipants ==
    [][\A gameId \in GameIds :
         ((Moved(gameId) /\ ev'.exit = "moved") \/ ResetOf(gameId))
         => Receiving(out', "updateGame", closed')
               = Humans(GameAt(ongoingGames', gameId))]_vars

\* C12: a session against the bot is never left waiting on side O: it has a
\* terminal result or it is the human's (X's) turn
C12_SoloNeverWaitsOnO ==
    \A k \in 1..Len(ongoingGames) :
        ongoingGames[k].isBotGame =>
            \/ ongoingGames[k].winner # Null
            \/ ongoingGames[k].currentPlayer = "X"

\* the makeMove handler t has run to its end in this step, the database
\* having answered
MoveHandled(t) ==
    /\ t \in BagToSet(tasks) /\ t.kind = "move"
    /\ ev'.name = "makeMove" /\ ev'.exit # "db failed"
    /\ \A u \in BagToSet(tasks') : u.kind # "move"

\* the game of the handler has a winner or a full board
SrvTerminal(game) == game.winner # Null \/ isDraw(game.board)

\* the boardUpdate messages that tell socket s the game is over
OverUpdates(msgs, s) == {m \in Sent(msgs, s, "boardUpdate") : m.data.gameOver}

\* C13: a makeMove that ends the game sends both players the terminal
\* boardUpdate and schedules the teardown; when the timer fires the game
\* leaves activeGames and the lobbyUpdate lists every listed participant of
\* it as available
C13_TerminalMoveTearsDown ==
    [][/\ \A t \in BagToSet(tasks) :
            (MoveHandled(t) /\ SrvTerminal(heap[t.ref]))
            => /\ OverUpdates(out', heap[t.ref].player1) # {}
               /\ OverUpdates(out', heap[t.ref].player2) # {}
               /\ \E i \in 1..Len(timers') : timers'[i] = t.gameId
       /\ (ev'.name = "timer" /\ timers # << >> /\ RefOf(activeGames, Head(timers)) # 0)
            => /\ RefOf(activeGames', Head(timers)) = 0
               /\ \A m \in Emitted(out', "lobbyUpdate") : \A r \in m.data :
                     r.socketId \in {heap[RefOf(activeGames, Head(timers))].player1,
                                     heap[RefOf(activeGames, Head(timers))].player2}
                     => r.status = "available"
               /\ Emitted(out', "lobbyUpdate") # {}]_vars

\* C14: the session created when b accepts a's challenge has an empty board,
\* the challenger on X with the first turn, the responder on O, and both are
\* sent startGame for its gameId, in challengeResponse and acceptChallenge
C14_AcceptedGameStartsWithChallenger ==
    [][/\ \A s \in Responders, from \in Challengers, gameId \in GameIds :
            ( /\ ev'.name = "challengeResponse" /\ ev'.exit = "started"
              /\ ChallengeResponse(s, from, TRUE, gameId) )
            => /\ IndexOf(ongoingGames', gameId) # 0
               /\ \A i \in AllCells : GameAt(ongoingGames', gameId).board[i] = Null
               /\ GameAt(ongoingGames', gameId).winner = Null
               /\ GameAt(ongoingGames', gameId).currentPlayer = "X"
               /\ GameAt(ongoingGames', gameId).players[1].socketId = from
               /\ GameAt(ongoingGames', gameId).players[1].symbol = "X"
               /\ GameAt(ongoingGames', gameId).players[2].socketId = s
               /\ GameAt(ongoingGames', gameId).players[2].symbol = "O"
               /\ \A x \in {s, from} :
                     \E m \in Sent(out', x, "startGame") :
                        m.data = GameAt(ongoingGames', gameId)
       /\ \A s \in Responders, from \in Challengers, now \in Times :
            (ev'.name = "acceptChallenge" /\ AcceptChallenge(s, from, now))
            => /\ RefOf(activeGames', SrvGameId(from, s, now)) # 0
               /\ \A i \in AllCells :
                     heap'[RefOf(activeGames', SrvGameId(from, s, now))].board[i] = Null
               /\ heap'[RefOf(activeGames', SrvGameId(from, s, now))].player1 = from
               /\ heap'[RefOf(activeGames', SrvGameId(from, s, now))].player2 = s
               /\ heap'[RefOf(activeGames', SrvGameId(from, s, now))].currentTurn = from
               /\ \E m \in Sent(out', from, "startGame") :
                     m.data = [gameId |-> SrvGameId(from, s, now),
                               yourTurn |-> TRUE, symbol |-> "X"]
               /\ \E m \in Sent(out', s, "startGame") :
                     m.data = [gameId |-> SrvGameId(from, s, now),
                               yourTurn |-> FALSE, symbol |-> "O"]]_vars

\* b has accepted a's challenge in both lobbies
C14_BothGamesStarted ==
    /\ ev.exit = "started"
    /\ \E k \in 1..Len(ongoingGames) : Bound(ongoingGames[k]) = {"a", "b"}
    /\ \E k \in 1..Len(activeGames) :
          heap[activeGames[k].ref].player1 = "a" /\ heap[activeGames[k].ref].player2 = "b"

\* C15: a declining challengeResponse between two registered participants
\* creates no session, changes no directory entry and sends challengeDeclined
\* with a reason to the challenger
C15_DeclineAlwaysNotifies ==
    [][\A s \in Responders, from \in Challengers :
         ( /\ ev'.name = "challengeResponse"
           /\ Has(lobbyUsers, from) /\ Has(lobbyUsers, s)
           /\ \E gameId \in GameIds : ChallengeResponse(s, from, FALSE, gameId) )
         => /\ UNCHANGED <<lobbyUsers, ongoingGames>>
            /\ \E m \in Sent(out', from, "challengeDeclined") :
                  "reason" \in DOMAIN m.data]_vars

\* C16: joinLobby from a connection that is already registered changes
\* nothing: the directory, with the entry's name, in-game flag and score,
\* and the sessions stay as they are and nothing is emitted
C16_RejoinIsNoOp ==
    [][\A s \in LobbyConns, username \in Names :
         ( /\ ev'.name = "joinLobby"
           /\ s \in DOMAIN lobbyUsers
           /\ JoinLobby(s, username) )
         => /\ UNCHANGED <<lobbyUsers, ongoingGames>>
            /\ out' = << >>]_vars

\* a participant of a session has tried to join again
C16_RejoinedWhileInGame ==
    /\ ev = Event("joinLobby", "registered")
    /\ \E s \in DOMAIN lobbyUsers : lobbyUsers[s].inGame

\* no challengeRequest between two different connections has been sent so
\* far: the second directory entry was made by the handler that ran last,
\* and no connection has ever been closed
NeverChallenged ==
    /\ ev = Event("joinLobby", "joined")
    /\ Cardinality(DOMAIN lobbyUsers) = 2
    /\ closed = {}

\* C17: an accepting challengeResponse creates a session only if the
\* challenger has sent the responder a challengeRequest that is not yet
\* answered; so it creates none while no challengeRequest has been sent
C17_SessionNeedsPendingChallenge ==
    [][\A s \in Responders, from \in Challengers :
         ( /\ NeverChallenged
           /\ ev'.name = "challengeResponse"
           /\ \E gameId \in GameIds : ChallengeResponse(s, from, TRUE, gameId) )
         => /\ ongoingGames' = ongoingGames
            /\ Sent(out', s, "startGame") = {}]_vars

\* a challengeRequest of the messages is from or to p
Challenging(msgs, p) ==
    \E m \in Emitted(msgs, "challengeRequest") : m.to = p \/ m.data.from = p

\* C18: while a challengeRequest from or to p is unanswered (it was sent by
\* the handler that ran last), challengeUser sends no further
\* challengeRequest from or to p
C18_OneChallengeAtATime ==
    [][\A p \in LobbyConns :
         (ev.name = "challengeUser" /\ Challenging(out, p)
            /\ ev'.name = "challengeUser")
         => ~Challenging(out', p)]_vars

\* the step began a round of gameId: the session was created or reset
RoundBegins == ev'.exit = "started" \/ WasReset

\* C19: within a round a claimed cell keeps its value: no human move and no
\* reply of the bot overwrites or clears it
C19_ClaimedCellsStay ==
    [][\A gameId \in GameIds :
         ( /\ IndexOf(ongoingGames, gameId) # 0
           /\ IndexOf(ongoingGames', gameId) # 0
           /\ ~RoundBegins )
         => \A i \in AllCells :
               GameAt(ongoingGames, gameId).board[i] # Null
               => GameAt(ongoingGames', gameId).board[i]
                    = GameAt(ongoingGames, gameId).board[i]]_vars

\* the human and the bot have both moved twice in the round
C19_FourCellsClaimed ==
    /\ ev = Event("playerMove", "moved")
    /\ \E k \in 1..Len(ongoingGames) :
          /\ ongoingGames[k].isBotGame
          /\ Cardinality({i \in AllCells : ongoingGames[k].board[i] # Null}) = 4

\* C20: a rematch reset happens in place: the session keeps its gameId, its
\* participants and their sides and its place in ongoingGames, every cell is
\* empty, X is to move, there is no result and no recorded request, and no
\* other session changes
C20_ResetInPlace ==
    [][\A gameId \in GameIds :
         ( /\ WasReset
           /\ \E s \in LobbyConns : RequestReplay(s, gameId) )
         => /\ Len(ongoingGames') = Len(ongoingGames)
            /\ IndexOf(ongoingGames', gameId) = IndexOf(ongoingGames, gameId)
            /\ GameAt(ongoingGames', gameId).gameId = gameId
            /\ GameAt(ongoingGames', gameId).players
                  = GameAt(ongoingGames, gameId).players
            /\ GameAt(ongoingGames', gameId).isBotGame
                  = GameAt(ongoingGames, gameId).isBotGame
            /\ \A i \in AllCells : GameAt(ongoingGames', gameId).board[i] = Null
            /\ GameAt(ongoingGames', gameId).currentPlayer = "X"
            /\ GameAt(ongoingGames', gameId).winner = Null
            /\ GameAt(ongoingGames', gameId).replayRequests = << >>
            /\ \A k \in 1..Len(ongoingGames) :
                  k # IndexOf(ongoingGames, gameId)
                  => ongoingGames'[k] = ongoingGames[k]]_vars

\* a two-human session has been reset after a round that was won
C20_ResetAfterWin ==
    /\ ev = Event("requestReplay", "reset")
    /\ \E k \in 1..Len(ongoingGames) :
          /\ ~ongoingGames[k].isBotGame
          /\ \A i \in AllCells : ongoingGames[k].board[i] = Null
          /\ \E s \in Bound(ongoingGames[k]) :
                Has(lobbyUsers, s) /\ lobbyUsers[s].score.wins = 1

\* the data of the last lobbyData broadcast of the messages, Null if none
LastLobbyData(msgs) ==
    IF \E i \in 1..Len(msgs) : msgs[i].event = "lobbyData"
    THEN msgs[CHOOSE i \in 1..Len(msgs) :
                /\ msgs[i].event = "lobbyData"
                /\ \A j \in (i + 1)..Len(msgs) : msgs[j].event # "lobbyData"].data
    ELSE Null

\* C21: every handler that changes the directory (its entries, their names,
\* in-game flags or scores) broadcasts, after its last change, a lobbyData
\* snapshot that lists exactly the directory as the handler leaves it
C21_SnapshotFollowsDirectory ==
    [][lobbyUsers' # lobbyUsers
         => /\ \E m \in Emitted(out', "lobbyData") : m.to = ALL
            /\ LastLobbyData(out') = Snapshot(lobbyUsers')]_vars

\* a handler has just created a session
Created == ev'.exit = "started"

\* C22: creating a session adds one entry to the ongoing-games table and
\* leaves every session that was there in place: the new id is the id of
\* no session that exists
C22_NewSessionReplacesNone ==
    [][Created
         => /\ Len(ongoingGames') = Len(ongoingGames) + 1
            /\ SubSeq(ongoingGames', 1, Len(ongoingGames)) = ongoingGames]_vars

----------------------------------------------------------------------------
(* checkWinner of part_003 as a function of the board *)

Marks == {Null, "X", "O"}
Boards == [AllCells -> Marks]

\* a session whose board is any board over the three marks
InitBoards ==
    /\ lobbyUsers = EmptyMap
    /\ \E board \in Boards :
          ongoingGames = << [NewGame("game_1", "a", "A", "b", "B", FALSE)
                                EXCEPT !.board = board] >>
    /\ crashed = FALSE
    /\ closed = {}
    /\ out = << >>
    /\ ev = Event("start", "listening")
    /\ activeUsers = EmptyMap
    /\ activeGames = << >>
    /\ heap = EmptyMap
    /\ dbUsers = EmptyMap
    /\ tasks = EmptyBag
    /\ timers = << >>

\* checkWinner(game.board) applied to the board of the session; the value it
\* returns is kept in the winner field
CheckWinner ==
    /\ ev.name = "start"
    /\ ongoingGames' = [ongoingGames EXCEPT ![1].winner = checkWinner(ongoingGames[1].board)]
    /\ ev' = Event("checkWinner", "returned")
    /\ UNCHANGED <<lobbyUsers, crashed, closed, out>>
    /\ UNCHANGED srvvars

NextBoards == CheckWinner

SpecBoards == InitBoards /\ [][NextBoards]_vars

\* the eight lines of the board: three rows, three columns, two diagonals
Lines == { {0, 1, 2}, {3, 4, 5}, {6, 7, 8},
           {0, 3, 6}, {1, 4, 7}, {2, 5, 8},
           {0, 4, 8}, {2, 4, 6} }

\* the side holds all three cells of some line
HasLine(board, side) == \E l \in Lines : \A i \in l : board[i] = side

Full(board) == \A i \in AllCells : board[i] # Null

\* C23: on every board over {empty, X, O} checkWinner returns a side exactly
\* when some line is complete, and then a side that holds a complete line;
\* it returns "draw" exactly when the board is full and no line is complete,
\* and null exactly when the board is not full and no line is complete
C23_CheckWinnerByLines ==
    ev.name = "checkWinner"
      => LET board == ongoingGames[1].board
             r == ongoingGames[1].winner
             lined == HasLine(board, "X") \/ HasLine(board, "O")
         IN  /\ r \in {"X", "O"} <=> lined
             /\ r \in {"X", "O"} => HasLine(board, r)
             /\ r = "draw" <=> (Full(board) /\ ~lined)
             /\ r = Null <=> (~Full(board) /\ ~lined)

\* checkWinner has returned "draw" on a full board without a line
C23_DrawReturned ==
    /\ ev.name = "checkWinner"
    /\ ongoingGames[1].winner = "draw"
    /\ Full(ongoingGames[1].board)
    /\ ~HasLine(ongoingGames[1].board, "X")
    /\ ~HasLine(ongoingGames[1].board, "O")

----------------------------------------------------------------------------
(* part_003: a participant that comes back on a new connection *)

\* a (name A) and b (name B) play on the upper two rows; b may disconnect,
\* and c is the connection on which B joins again
NextReturn ==
    \/ JoinLobby("a", "A")
    \/ \E s \in {"b", "c"} : JoinLobby(s, "B")
    \/ \E accepted \in BOOLEAN : ChallengeResponse("b", "a", accepted, "game_1")
    \/ \E cellIndex \in {0, 1, 2} : PlayerMove("a", "game_1", cellIndex)
    \/ \E cellIndex \in {3, 4} : PlayerMove("b", "game_1", cellIndex)
    \/ \E s \in GameConns : ExitToLobby(s, "game_1")
    \/ Disconnect("b")

SpecReturn == Init /\ [][NextReturn]_vars

\* the counters of an entry that has been credited nothing
Zero == [wins |-> 0, losses |-> 0, draws |-> 0]

\* some entry of the directory holds the score under the username
Attributed(users, username, score) ==
    \E t \in DOMAIN users :
        /\ users[t].username = username
        /\ users[t].score = score

\* C24: counters credited to a display name stay attributed to that name when
\* its connection goes away: the records kept after the connection has left
\* still hold the name's counters, for the name to find when it joins again
C24_CountersOutliveConnection ==
    [][\A s \in DOMAIN lobbyUsers :
          (s \notin DOMAIN lobbyUsers' /\ lobbyUsers[s].score # Zero)
            => Attributed(lobbyUsers', lobbyUsers[s].username,
                          lobbyUsers[s].score)]_vars

\* a handler that abandons a session has just run
Abandons == ev'.name \in {"exitToLobby", "quitGame", "disconnect"}

\* C25: abandoning a session changes no score counter: exitToLobby, quitGame
\* and disconnect leave the wins, losses, draws and games of every record
\* that stays, the leaver's and the opponent's, as they were
C25_AbandonKeepsCounters ==
    [][Abandons
         => /\ \A id \in DOMAIN lobbyUsers \cap DOMAIN lobbyUsers' :
                  lobbyUsers'[id].score = lobbyUsers[id].score
            /\ dbUsers' = dbUsers]_vars

----------------------------------------------------------------------------
(* server.js: the three seconds between a terminal move and the teardown *)

\* a and b play the game b accepted from a, a on the top row and b on the
\* middle row, and a may quit it; b has also accepted a game from c, which nobody plays
NextGrace ==
    \/ \E username \in Names : Login(username)
    \/ \E s \in GameConns : SrvJoinLobby(s, AccountOf(s))
    \/ \E from \in Challengers : AcceptChallenge("b", from, "t1")
    \/ \E index \in {0, 1, 2} : MakeMove("a", SrvGameId("a", "b", "t1"), index, "X")
    \/ \E index \in {3, 4} : MakeMove("b", SrvGameId("a", "b", "t1"), index, "O")
    \/ \E t \in BagToSet(tasks) : MoveStats(t)
    \/ \E t \in BagToSet(tasks) : MoveEmit(t)
    \/ TimerFires
    \/ QuitGame("a", SrvGameId("a", "b", "t1"))
    \/ \E t \in BagToSet(tasks) : QuitStats(t)
    \/ \E t \in BagToSet(tasks) : QuitEmit(t)

SpecGrace == Init /\ [][NextGrace]_vars

\* the teardown timer has just fired for a session that activeGames no
\* longer holds
LateTimer ==
    /\ ev'.name = "timer"
    /\ timers # << >>
    /\ \A k \in 1..Len(activeGames) : activeGames[k].gameId # Head(timers)

\* C26: when the teardown timer fires for a session that quitGame has already
\* removed, no session leaves activeGames, no game, user or score record
\* changes, and the only message is the lobbyUpdate broadcast
C26_LateTimerRemovesNothing ==
    [][LateTimer
         => /\ activeGames' = activeGames
            /\ heap' = heap
            /\ activeUsers' = activeUsers
            /\ dbUsers' = dbUsers
            /\ out' = << LobbyUpdate(activeUsers, activeGames, heap) >>]_vars

\* the timer has fired after A won (wins 1) and then quit (losses 1) the
\* session, and the session b holds with c is still there
C26_TimerAfterQuit ==
    /\ ev.name = "timer"
    /\ tasks = EmptyBag
    /\ timers = << >>
    /\ "A" \in DOMAIN dbUsers
    /\ dbUsers["A"].wins = 1 /\ dbUsers["A"].losses = 1
    /\ Len(activeGames) = 1
    /\ activeGames[1].gameId = SrvGameId("c", "b", "t1")

\* the makeMove handlers that have claimed a cell and not yet run to their end
Suspended == {t \in BagToSet(tasks) : t.kind = "move"}

\* the step runs another makeMove up to its await, or a quitGame step, a
\* disconnect or the teardown timer
OtherEvent ==
    \/ ev'.name = "makeMove" /\ ev'.exit = "await initDB"
    \/ ev'.name \in {"quitGame", "disconnect", "timer"}

\* C27: between the cell claim of an accepted makeMove and the end of its
\* handler no other makeMove, quitGame, disconnect or teardown timer runs, and
\* the boardUpdate the handler emits carries the winner its own move produced
C27_MoveRunsToCompletion ==
    [][Suspended # {}
         => /\ ~OtherEvent
            /\ \A t \in Suspended :
                  (ev'.name = "makeMove" /\ t \notin BagToSet(tasks'))
                    => \A m \in Emitted(out', "boardUpdate") :
                          m.data.winner = t.winner]_vars

\* the makeMove handler t has ended in this step on a failure of the score
\* store: a read or write that rejected, or a record that was not found
StoreFailed(t) ==
    /\ t \in Suspended
    /\ ev'.exit \in {"db failed", "threw"}
    /\ ev'.name \in {"move", "makeMove"}
    /\ t \notin BagToSet(tasks')

\* C28: when the score store fails during a terminal move, the move stays
\* applied in memory, both players are still sent the boardUpdate that ends
\* the game, and the teardown of the session is scheduled
C28_StoreFailureKeepsPlay ==
    [][\A t \in Suspended :
          (StoreFailed(t) /\ SrvTerminal(heap[t.ref]))
            => /\ t.ref \in DOMAIN heap' => heap'[t.ref] = heap[t.ref]
               /\ OverUpdates(out', heap[t.ref].player1) # {}
               /\ OverUpdates(out', heap[t.ref].player2) # {}
               /\ \E i \in 1..Len(timers') : timers'[i] = t.gameId]_vars

\* C29: in a session against the bot one requestReplay is enough: the handler
\* ends with every cell empty, X to move and no result, whatever the round
\* before it was and with no request recorded or waited for
C29_SoloResetsAtOnce ==
    [][\A gameId \in GameIds :
         ( /\ ev'.name = "requestReplay"
           /\ IndexOf(ongoingGames, gameId) # 0
           /\ GameAt(ongoingGames, gameId).isBotGame
           /\ \E s \in GameConns : RequestReplay(s, gameId) )
         => /\ ev'.exit = "reset"
            /\ IndexOf(ongoingGames', gameId) # 0
            /\ \A i \in AllCells : GameAt(ongoingGames', gameId).board[i] = Null
            /\ GameAt(ongoingGames', gameId).currentPlayer = "X"
            /\ GameAt(ongoingGames', gameId).winner = Null
            /\ GameAt(ongoingGames', gameId).replayRequests = << >>]_vars

\* a session against the bot has been reset after the human won a round
C29_SoloResetAfterWin ==
    /\ ev = Event("requestReplay", "reset")
    /\ \E k \in 1..Len(ongoingGames) :
          /\ ongoingGames[k].isBotGame
          /\ \A i \in AllCells : ongoingGames[k].board[i] = Null
          /\ ongoingGames[k].winner = Null
          /\ Has(lobbyUsers, ongoingGames[k].players[1].socketId)
          /\ lobbyUsers[ongoingGames[k].players[1].socketId].score.wins = 1

\* server.js, a session that goes on after its result: a plays the top row
\* and b the middle row of the game b accepted from a
NextOver ==
    \/ \E username \in Names : Login(username)
    \/ \E s \in GameConns : SrvJoinLobby(s, AccountOf(s))
    \/ AcceptChallenge("b", "a", "t1")
    \/ \E index \in {0, 1, 2} : MakeMove("a", SrvGameId("a", "b", "t1"), index, "X")
    \/ \E index \in {3, 4, 5} : MakeMove("b", SrvGameId("a", "b", "t1"), index, "O")
    \/ \E t \in BagToSet(tasks) : MoveStats(t)
    \/ \E t \in BagToSet(tasks) : MoveEmit(t)
    \/ TimerFires

SpecOver == Init /\ [][NextOver]_vars

\* a makeMove has just been accepted: its handler claimed the cell and is
\* suspended at its first await
Accepted == {t \in BagToSet(tasks') : t.kind = "move" /\ t.pc = "init"}
                \ BagToSet(tasks)

\* C30: a session's result becomes terminal at most once: no makeMove is
\* accepted on a session whose board already holds a win or a draw, and the
\* games counter of a record is raised at most once for the session
C30_NoMoveAfterResult ==
    [][/\ \A t \in Accepted : ~SrvTerminal(heap[t.ref])
       /\ \A n \in DOMAIN dbUsers :
             (ev'.name = "makeMove" /\ n \in DOMAIN dbUsers')
               => (dbUsers'[n].games > dbUsers[n].games => dbUsers[n].games = 0)]_vars

\* the result the board calls for: the side that holds a line, "draw" on a
\* full board without a line, none otherwise
Evaluated(board) ==
    IF HasLine(board, "X") THEN "X"
    ELSE IF HasLine(board, "O") THEN "O"
    ELSE IF Full(board) THEN "draw"
    ELSE Null

\* C31: when a handler has finished, the winner recorded in every session is
\* the result of its board: null exactly when the board has no line and is
\* not full, otherwise the side with the line or "draw"; moves, bot replies
\* and rematch resets leave no stale result
C31_ResultFollowsBoard ==
    \A k \in 1..Len(ongoingGames) :
        ongoingGames[k].winner = Evaluated(ongoingGames[k].board)

\* the bot's reply has completed a line of O and the session records it
C31_BotWinRecorded ==
    /\ ev = Event("playerMove", "moved")
    /\ \E k \in 1..Len(ongoingGames) :
          /\ ongoingGames[k].isBotGame
          /\ HasLine(ongoingGames[k].board, "O")
          /\ ongoingGames[k].winner = "O"

\* the updateGame messages that report the session as abandoned
AbandonedUpdates(msgs) ==
    {m \in Emitted(msgs, "updateGame") : m.data.winner = "abandoned"}

\* C32: 'abandoned' is reported only for a session without a result: when a
\* participant exits or disconnects, an updateGame that carries 'abandoned'
\* is about a session whose winner was null
C32_AbandonedOnlyWithoutResult ==
    [][ev'.name \in {"exitToLobby", "disconnect"}
         => \A m \in AbandonedUpdates(out') :
               /\ IndexOf(ongoingGames, m.data.gameId) # 0
               /\ GameAt(ongoingGames, m.data.gameId).winner = Null]_vars

\* C33: at the end of every handler a registered connection is marked in-game
\* exactly when it is a participant of some session of ongoingGames
C33_PresenceMatchesBinding ==
    \A s \in DOMAIN lobbyUsers :
        lobbyUsers[s].inGame <=> GamesOf(ongoingGames, s) # {}

\* the connections whose exitToLobby has just been handled: the handler
\* answers its sender with returnedToLobby
Exiting == {m.to : m \in Emitted(out', "returnedToLobby")}

\* C34: exitToLobby leaves alone every session its sender is not a participant
\* of: the session stays in ongoingGames, its participants keep their
\* status, and none of them is sent an 'abandoned' update
C34_StrangerExitChangesNothing ==
    [][ev'.name = "exitToLobby"
         => \A s \in Exiting : \A k \in 1..Len(ongoingGames) :
               s \notin Bound(ongoingGames[k])
                 => /\ \E j \in 1..Len(ongoingGames') :
                          ongoingGames'[j] = ongoingGames[k]
                    /\ \A p \in Humans(ongoingGames[k]) \cap DOMAIN lobbyUsers :
                          /\ p \in DOMAIN lobbyUsers'
                          /\ lobbyUsers'[p].inGame = lobbyUsers[p].inGame
                          /\ \A m \in AbandonedUpdates(out') : m.to # p]_vars

\* C35: requestReplay resets a session only when its round is over: a
\* requestReplay that empties the board or changes the side to move of a
\* session finds a result in it
C35_ResetOnlyAfterResult ==
    [][ev'.name = "requestReplay"
         => \A k \in 1..Len(ongoingGames) :
               ( /\ k <= Len(ongoingGames')
                 /\ \/ ongoingGames'[k].board # ongoingGames[k].board
                    \/ ongoingGames'[k].currentPlayer # ongoingGames[k].currentPlayer )
               => ongoingGames[k].winner # Null]_vars

\* the number of cells of the board that hold the mark
Count(board, mark) == Cardinality({i \in AllCells : board[i] = mark})

\* X has moved as often as O, or once more
Balanced(board) == Count(board, "X") - Count(board, "O") \in {0, 1}

\* C36: an accepted move writes the side of the participant that made it, in
\* playerMove and in makeMove, so on every board of a session the number of
\* X cells minus the number of O cells is 0 or 1
C36_MarksAlternate ==
    /\ \A k \in 1..Len(ongoingGames) : Balanced(ongoingGames[k].board)
    /\ \A r \in DOMAIN heap : Balanced(heap[r].board)

----------------------------------------------------------------------------
(* part_003: challenges that name their own sender *)

\* a and b challenge each other or themselves; b answers a challenge in which
\* it names a or itself as the sender, and moves or exits in the session
NextSelf ==
    \/ \E s \in GameConns, username \in Names : JoinLobby(s, username)
    \/ \E s \in GameConns, opponentId \in GameConns : ChallengeUser(s, opponentId)
    \/ \E from \in GameConns, accepted \in BOOLEAN :
          ChallengeResponse("b", from, accepted, "game_1")
    \/ \E s \in GameConns, cellIndex \in {0, 1} : PlayerMove(s, "game_1", cellIndex)
    \/ \E s \in GameConns : ExitToLobby(s, "game_1")

SpecSelf == Init /\ [][NextSelf]_vars

\* C37: the two participant slots of every session hold different
\* connections: no challengeUser or challengeResponse, with whatever sender
\* it names, binds one connection to both X and O
C37_TwoDistinctParticipants ==
    \A k \in 1..Len(ongoingGames) :
        ongoingGames[k].players[1].socketId # ongoingGames[k].players[2].socketId

====
